---- MODULE Spec2Model ----
(***************************************************************************)
(* Model of symex_tool/extract.py: parse_struct_ptr, the breadth-first     *)
(* expansion of a structure catalogue into a layout tree, extract_structs  *)
(* with its pickle cache (symex_tool/utils.py), and                        *)
(* extract_function_pointers; and of Analyzer.parse_constraints            *)
(* (analyzer.py).                                                          *)
(*                                                                         *)
(* Type spellings and constraints are kept as strings and taken apart the  *)
(* way the Python code does it (endswith, find, rfind, slicing, int(),     *)
(* strip, split, in).                                                      *)
(***************************************************************************)
EXTENDS Integers, Sequences, FiniteSets, TLC

VARIABLES structs, built, name, heap, pc, q, parent, cur, fidx, root, last,
          cache_fname, cache, res, ri, epc, ret,
          constraints, ci, section, parsed_constraints, printed, apc,
          fptr_rows, fptrs, fpc

\* the state of a call of extract_structs: its cache file, the rows of the
\* query, the loop position, where the call is and what it returned
extractVars == <<cache_fname, cache, res, ri, epc, ret>>

\* the state of a call of Analyzer.parse_constraints: its argument, the loop
\* position, the locals section and parsed_constraints, what was printed,
\* and where the call is
analyzerVars == <<constraints, ci, section, parsed_constraints, printed, apc>>

\* the state of a call of extract_function_pointers: the rows of the query,
\* the list it returns, and where the call is
fptrVars == <<fptr_rows, fptrs, fpc>>

\* what parse_struct_ptr does not touch
otherVars == <<extractVars, analyzerVars, fptrVars>>

\* the state of the calls of parse_struct_ptr
parseVars == <<built, name, heap, pc, q, parent, cur, fidx, root, last>>

vars == <<structs, built, name, heap, pc, q, parent, cur, fidx, root, last, otherVars>>

(***************************************************************************)
(* Python string primitives used by parse_struct_ptr.                      *)
(***************************************************************************)

\* s[i] for a 0-based index i
CharAt(s, i) == SubSeq(s, i + 1, i + 1)

\* str.endswith(suf)
EndsWith(s, suf) ==
    /\ Len(s) >= Len(suf)
    /\ SubSeq(s, Len(s) - Len(suf) + 1, Len(s)) = suf

\* str.rfind(ch) for a one-character ch: highest 0-based index, or -1
RFind(s, ch) ==
    LET hits == {i \in 0..(Len(s) - 1) : CharAt(s, i) = ch}
    IN  IF hits = {} THEN -1
        ELSE CHOOSE i \in hits : \A j \in hits : j <= i

\* s[a:b] for a >= 0 and any integer b (negative b counts from the end)
Slice(s, a, b) ==
    LET hi == IF b < 0 THEN (IF Len(s) + b < 0 THEN 0 ELSE Len(s) + b)
              ELSE (IF b > Len(s) THEN Len(s) ELSE b)
    IN  IF a >= hi THEN "" ELSE SubSeq(s, a + 1, hi)

Whitespace == {" ", "\t", "\n", "\r"}

\* str.strip()
Strip(s) ==
    LET keep == {i \in 0..(Len(s) - 1) : CharAt(s, i) \notin Whitespace}
    IN  IF keep = {} THEN ""
        ELSE LET lo == CHOOSE i \in keep : \A j \in keep : i <= j
                 hi == CHOOSE i \in keep : \A j \in keep : j <= i
             IN  SubSeq(s, lo + 1, hi + 1)

\* set(s): the set of the characters of s
Chars(s) == {CharAt(s, i) : i \in 0..(Len(s) - 1)}

Digits == {"0", "1", "2", "3", "4", "5", "6", "7", "8", "9"}

DigitVal(c) ==
    CASE c = "0" -> 0 [] c = "1" -> 1 [] c = "2" -> 2 [] c = "3" -> 3
      [] c = "4" -> 4 [] c = "5" -> 5 [] c = "6" -> 6 [] c = "7" -> 7
      [] c = "8" -> 8 [] c = "9" -> 9

\* value of a string of digits and underscores, read left to right
RECURSIVE DigitsVal(_, _)
DigitsVal(s, acc) ==
    IF s = "" THEN acc
    ELSE LET c == CharAt(s, 0)
         IN  IF c = "_" THEN DigitsVal(Slice(s, 1, Len(s)), acc)
             ELSE DigitsVal(Slice(s, 1, Len(s)), 10 * acc + DigitVal(c))

\* digits with single underscores between them, as int() accepts them
IsDecimal(body) ==
    /\ body # ""
    /\ \A i \in 0..(Len(body) - 1) : CharAt(body, i) \in Digits \cup {"_"}
    /\ CharAt(body, 0) \in Digits
    /\ CharAt(body, Len(body) - 1) \in Digits
    /\ \A i \in 0..(Len(body) - 2) : ~(CharAt(body, i) = "_" /\ CharAt(body, i + 1) = "_")

\* the value of a sign and the text after it
SignedInt(sgn, body) ==
    IF ~IsDecimal(body) THEN [ok |-> FALSE, val |-> 0]
    ELSE [ok |-> TRUE,
          val |-> IF sgn = "-" THEN 0 - DigitsVal(body, 0) ELSE DigitsVal(body, 0)]

\* int() on a text without surrounding whitespace
StrippedInt(t) ==
    IF t # "" /\ CharAt(t, 0) \in {"+", "-"}
    THEN SignedInt(CharAt(t, 0), Slice(t, 1, Len(t)))
    ELSE SignedInt("", t)

\* int(s): [ok |-> TRUE, val |-> n], or [ok |-> FALSE, ...] where Python
\* raises ValueError.  Accepts surrounding whitespace, one sign, and decimal
\* digits with single underscores between digits.
ParseInt(s) == StrippedInt(Strip(s))

\* the division left out: the size of the whole array stays the element size
FloorDivLeftOut(a, b) == a

\* Python's floor division a // b for b # 0
FloorDiv(a, b) == IF b > 0 THEN a \div b ELSE (0 - a) \div (0 - b)

(***************************************************************************)
(* Program constants.                                                      *)
(***************************************************************************)

INTS == {"char", "short", "int", "long", "long long"}

PRIMITIVE_TYPES ==
    {"float", "double", "long double", "bool", "(unnamed enum)", "..(*)(..)", "void"}
    \cup INTS
    \cup {t \o " *" : t \in INTS}
    \cup {"unsigned " \o t : t \in INTS}
    \cup {"unsigned " \o t \o " *" : t \in INTS}

UnnamedTypes == {"struct <unnamed>", "union <unnamed>"}

(***************************************************************************)
(* Values.                                                                 *)
(***************************************************************************)

\* Python's None, for a call that returned no Pointer (node ids start at 1)
None == 0

\* the empty dict
EmptyDict == <<>>

\* d[k] = v on a dict d
Put(d, k, v) == [x \in (DOMAIN d) \cup {k} |-> IF x = k THEN v ELSE d[x]]

\* a slot of Pointer.fields: a plain size, or a reference to a child Pointer
Scalar(sz) == [kind |-> "Scalar", v |-> sz]
Nested(id) == [kind |-> "Nested", v |-> id]

\* Pointer(name, size, {})
Pointer(n, sz) == [name |-> n, size |-> sz, fields |-> EmptyDict]

Struct(sz, fs) == [size |-> sz, fields |-> fs]
StructField(n, t, off, sz) == [name |-> n, type |-> t, offset |-> off, size |-> sz]

(***************************************************************************)
(* extract_structs: the catalogue built from the rows of the query.        *)
(* A row is <<struct, struct size, field name, type, offset, size>>.       *)
(***************************************************************************)

\* the loop body with the entry of a structure made anew for every row
AddRowResets(acc, r) ==
    IF r[1] # "struct <unnamed>"
    THEN Put(acc, r[1], Struct(r[2], <<StructField(r[3], r[4], r[5], r[6])>>))
    ELSE acc

\* lines 102-108: the body of the loop for the row r on the dict acc
AddRow(acc, r) ==
    IF r[1] # "struct <unnamed>"
    THEN LET cur0 == IF r[1] \in DOMAIN acc THEN acc[r[1]] ELSE Struct(r[2], <<>>)
         IN  Put(acc, r[1], Struct(cur0.size,
                                   Append(cur0.fields, StructField(r[3], r[4], r[5], r[6]))))
    ELSE acc

RECURSIVE BuildStructs(_, _)
BuildStructs(rows, acc) ==
    IF rows = <<>> THEN acc
    ELSE BuildStructs(Tail(rows), AddRow(acc, Head(rows)))

extract_structs(rows) == BuildStructs(rows, EmptyDict)

(***************************************************************************)
(* utils.py: save_object and restore_object, the pickle cache.             *)
(* A Python value that may be None is PyNone or PyObj(v).  A file is       *)
(* absent or holds bytes; a pickle is the sequence of opcodes PROTO, the   *)
(* object, STOP, so that a truncated blob is a proper prefix of it.        *)
(***************************************************************************)

PyNone == [py |-> "None"]
PyObj(v) == [py |-> "obj", v |-> v]

NoFile == [exists |-> FALSE, bytes |-> <<>>]
File(b) == [exists |-> TRUE, bytes |-> b]

Opcode(o, a) == [op |-> o, arg |-> a]

\* pickle.dump(obj, f)
PickleDump(obj) == <<Opcode("PROTO", PyNone), Opcode("OBJ", obj), Opcode("STOP", PyNone)>>

\* pickle.load(f) on the bytes b: the exception it raises ("" if none) and
\* the object it returns
PickleLoad(b) ==
    IF Len(b) = 0 THEN [err |-> "EOFError", val |-> PyNone]
    ELSE IF b[1].op # "PROTO" THEN [err |-> "UnpicklingError", val |-> PyNone]
    ELSE IF Len(b) < 3 THEN [err |-> "UnpicklingError", val |-> PyNone]
    ELSE IF b[2].op # "OBJ" \/ b[3].op # "STOP"
         THEN [err |-> "UnpicklingError", val |-> PyNone]
    ELSE [err |-> "", val |-> b[2].arg]

\* the exceptions restore_object turns into None
RestoreCaught == {"FileNotFoundError", "EOFError"}

\* restore_object(fname) on the file f: the exception that leaves it ("" if
\* none) and the value it returns
restore_object(f) ==
    LET out == IF ~f.exists THEN [err |-> "FileNotFoundError", val |-> PyNone]
               ELSE PickleLoad(f.bytes)
    IN  IF out.err \in RestoreCaught THEN [err |-> "", val |-> PyNone] ELSE out

\* save_object(obj, fname): the file afterwards
save_object(obj) == File(PickleDump(PyObj(obj)))

(***************************************************************************)
(* parse_struct_ptr: one loop iteration over a field of the current node.  *)
(***************************************************************************)

\* the walk over the ancestor names ("Avoid infinite loops"): TRUE iff the
\* loop leaves with inf = True
RECURSIVE WalkParents(_, _, _, _)
WalkParents(par, seen, ftype, par_map) ==
    IF par \notin DOMAIN par_map THEN FALSE
    ELSE LET newpar == par_map[par]
         IN  IF newpar = ftype \/ newpar \in seen THEN TRUE
             ELSE IF newpar = par THEN FALSE
             ELSE WalkParents(newpar, seen \cup {newpar}, ftype, par_map)

\* IsInf with the walk over the ancestors left out
IsInfSelfOnly(ftype, curname, par_map) == ftype = curname

\* IsInf without the test for the node's own type
IsInfWalkOnly(ftype, curname, par_map) == WalkParents(ftype, Chars(ftype), ftype, par_map)

\* IsInf with the name of the current node among the names the walk must
\* not reach
IsInfReachesCur(ftype, curname, par_map) ==
    IF ftype = curname THEN TRUE
    ELSE WalkParents(ftype, Chars(ftype) \cup {curname}, ftype, par_map)

\* inf for a field of base type ftype met in a node of type curname
IsInf(ftype, curname, par_map) ==
    IF ftype = curname THEN TRUE
    ELSE WalkParents(ftype, Chars(ftype), ftype, par_map)

\* the type left after "ftype = ftype[:-1].strip()"
PointeeType(ftype) == Strip(Slice(ftype, 0, -1))

\* lines 40-42 for the type ftype left of the bracket and the result n of
\* int() on the text between the brackets: err names the exception raised
\* (by int(), or by the division by a length of zero)
ArrayOfLen(t, ftype, n) ==
    IF ~n.ok THEN [err |-> "ValueError", array_sz |-> 1, ftype |-> t]
    ELSE IF n.val = 0 THEN [err |-> "ZeroDivisionError", array_sz |-> 0, ftype |-> ftype]
    ELSE [err |-> "", array_sz |-> n.val, ftype |-> ftype]

\* lines 39-42 with start = ftype.rfind('[')
ArrayAt(t, start) == ArrayOfLen(t, Slice(t, 0, start), ParseInt(Slice(t, start + 1, -1)))

\* lines 35-42, "if ftype.endswith(']')": the array length and the type
\* without its suffix
ArrayPart(t) ==
    IF EndsWith(t, "]") THEN ArrayAt(t, RFind(t, "["))
    ELSE [err |-> "", array_sz |-> 1, ftype |-> t]

\* PointerPart without the test for a second "*"
PointerPartAnyDepth(a, isPtr, ftype) ==
    [err      |-> a.err,
     array_sz |-> a.array_sz,
     ftype    |-> ftype,
     follow   |-> isPtr /\ ftype \notin PRIMITIVE_TYPES]

\* lines 44-50 for the array part a: ftype is the type the field is looked
\* up by, follow says that it is a single pointer to a non-primitive type
PointerPart(a, isPtr, ftype) ==
    [err      |-> a.err,
     array_sz |-> a.array_sz,
     ftype    |-> ftype,
     follow   |-> isPtr /\ ~EndsWith(ftype, "*") /\ ftype \notin PRIMITIVE_TYPES]

PointerOf(a) ==
    IF EndsWith(a.ftype, "*") THEN PointerPart(a, TRUE, PointeeType(a.ftype))
    ELSE PointerPart(a, FALSE, a.ftype)

\* lines 35-50: what the string operations make of a declared type
ParseType(t) == PointerOf(ArrayPart(t))

\* ScalarLoop with the elements one byte apart
RECURSIVE ScalarLoopUnitStride(_, _, _, _, _)
ScalarLoopUnitStride(fields, foff, fsize, array_sz, i) ==
    IF i >= array_sz THEN fields
    ELSE ScalarLoopUnitStride(Put(fields, foff + i, Scalar(fsize)), foff, fsize, array_sz, i + 1)

\* "for i in range(array_sz): cur.fields[foff + i * fsize] = fsize", from i on
RECURSIVE ScalarLoop(_, _, _, _, _)
ScalarLoop(fields, foff, fsize, array_sz, i) ==
    IF i >= array_sz THEN fields
    ELSE ScalarLoop(Put(fields, foff + i * fsize, Scalar(fsize)), foff, fsize, array_sz, i + 1)

\* Child with the number of fields of the target taken for its size
ChildSizedByFields(ftype, cat) == Pointer(ftype, Len(cat[ftype].fields))

\* line 77: "Pointer(ftype, structs[ftype].size, {})"
Child(ftype, cat) == Pointer(ftype, cat[ftype].size)

\* the loop that creates the children, from i on; st carries cur.fields, the
\* nodes allocated so far and the queue
RECURSIVE NestedLoop(_, _, _, _, _, _, _)
NestedLoop(st, ftype, foff, fsize, array_sz, i, cat) ==
    IF i >= array_sz THEN st
    ELSE IF ftype \in DOMAIN cat
    THEN LET id == st.next
         IN  NestedLoop([fields |-> Put(st.fields, foff + i * fsize, Nested(id)),
                         fresh  |-> Append(st.fresh, Child(ftype, cat)),
                         q      |-> Append(st.q, id),
                         next   |-> id + 1],
                        ftype, foff, fsize, array_sz, i + 1, cat)
    ELSE NestedLoop(st, ftype, foff, fsize, array_sz, i + 1, cat)

\* UnnamedSlot with offset and size taken for each other
UnnamedSlotSwapped(fields, f) == Put(fields, f.size, Scalar(f.offset))

\* line 31: "cur.fields[f.offset] = f.size"
UnnamedSlot(fields, f) == Put(fields, f.offset, Scalar(f.size))

\* the body of "for f in structs[cur.name].fields" for the field f of the
\* node curnode, whose type parses to t: the exception raised, or the new
\* cur.fields, the nodes allocated, the new queue and the new parent map
FieldBody(f, t, curnode, queue, par_map, cat, nextId) ==
    LET same  == [err |-> "", fields |-> curnode.fields, fresh |-> <<>>,
                  q |-> queue, parent |-> par_map]
    IN
    IF f.type \in UnnamedTypes
    THEN [same EXCEPT !.fields = UnnamedSlot(curnode.fields, f)]
    ELSE IF t.err # "" THEN [same EXCEPT !.err = t.err]
    ELSE
    LET fsize == FloorDiv(f.size, t.array_sz)
    IN  IF t.follow /\ ~IsInf(t.ftype, curnode.name, par_map)
        THEN LET st == NestedLoop([fields |-> curnode.fields, fresh |-> <<>>,
                                   q |-> queue, next |-> nextId],
                                  t.ftype, f.offset, fsize, t.array_sz, 0, cat)
             IN  [err |-> "", fields |-> st.fields, fresh |-> st.fresh, q |-> st.q,
                  parent |-> Put(par_map, t.ftype, curnode.name)]
        ELSE [same EXCEPT
                !.fields = ScalarLoop(curnode.fields, f.offset, fsize, t.array_sz, 0)]

(***************************************************************************)
(* Inputs.                                                                 *)
(***************************************************************************)

\* longest row sequence of a catalogue of structure pointers
MaxRows == 3

\* most fields of the structure of a catalogue of assorted field types
MaxZooFields == 2

\* most Pointer objects the model lets the calls allocate; a call that needs
\* more stops where it is, short of its return
MaxHeap == 64

CallIds == {1, 2}

\* structure names; "A" and "B" are also the characters of "AB"
Names == {"A", "B", "AB"}

\* pointer fields between the structures, single and as an array
PtrTypes == {n \o " *" : n \in Names} \cup {"B *[2]"}

SeqsUpTo(S, n) == UNION {[1..k -> S] : k \in 1..n}

\* byte size the query reports for a field of a pointer type
PtrFieldSize(t) == IF EndsWith(t, "]") THEN 16 ELSE 8

\* byte size of a structure that has room for n fields; the structures
\* differ in their padding
StructSize(s, n) == 16 * n + (IF s = "A" THEN 0 ELSE IF s = "B" THEN 8 ELSE 16)

\* the rows of the query for the fields picks[i] = <<struct, type>>, laid
\* out one after the other in their structure, 16 bytes apart, in
\* structures with room for n fields
RowsOf(picks, n) ==
    [i \in 1..Len(picks) |->
        <<picks[i][1], StructSize(picks[i][1], n), "f", picks[i][2],
          16 * Cardinality({j \in 1..(i - 1) : picks[j][1] = picks[i][1]}),
          PtrFieldSize(picks[i][2])>>]

PtrCatalogues(n) ==
    {extract_structs(RowsOf(picks, n)) : picks \in SeqsUpTo(Names \X PtrTypes, n)}

\* the rows of the query when the structures are unions: every field
\* picks[i] = <<struct, type>> at offset 0
UnionRows(picks, n) ==
    [i \in 1..Len(picks) |->
        <<picks[i][1], StructSize(picks[i][1], n), "f", picks[i][2], 0,
          PtrFieldSize(picks[i][2])>>]

UnionCatalogues(n) ==
    {extract_structs(UnionRows(picks, n)) : picks \in SeqsUpTo(Names \X PtrTypes, n)}

\* assorted field types: primitives, arrays, pointers of every depth, unnamed
\* aggregates, unknown targets and array suffixes int() cannot read
ZooTypes ==
    {"int", "unsigned long", "int *", "int **", "A *", "A **", "<unnamed> *",
     "<unnamed> **", "Z *", "Z *[2]", "struct A *", "struct <unnamed>",
     "union <unnamed>", "int [4]", "char [3]", "int *[2]", "A **[2]",
     "int []", "int [0]", "int [x]", "int ]"}

\* a type with the byte size the query reports for it; the pointers are
\* also tried with a size of 16
ZooFields ==
    {<<t, 8>> : t \in ZooTypes \ {"int [4]", "Z *[2]", "int *[2]", "A **[2]"}}
    \cup {<<"int [4]", 16>>, <<"Z *[2]", 16>>, <<"int *[2]", 16>>, <<"A **[2]", 16>>,
          <<"int **", 16>>, <<"Z *", 16>>}

\* the rows of structure "A" with the fields picks[i] = <<type, size>>
ZooRows(picks) ==
    [i \in 1..Len(picks) |-> <<"A", 16 * Len(picks), "f", picks[i][1], 16 * (i - 1),
                               picks[i][2]>>]

\* every declared type of the catalogues above, parsed
ParsedTypes == [t \in PtrTypes \cup ZooTypes |-> ParseType(t)]

\* entries a caller may put under the names of the unnamed aggregates
UnnamedEntries ==
    Put(Put(EmptyDict, "<unnamed>", Struct(4, <<StructField("x", "int", 0, 4)>>)),
        "struct <unnamed>", Struct(4, <<StructField("x", "int", 0, 4)>>))

Merge(d, e) == [x \in (DOMAIN d) \cup (DOMAIN e) |-> IF x \in DOMAIN e THEN e[x] ELSE d[x]]

ZooCatalogues(n) ==
    LET plain == {extract_structs(ZooRows(picks)) : picks \in SeqsUpTo(ZooFields, n)}
    IN  plain \cup {Merge(c, UnnamedEntries) : c \in plain}

(***************************************************************************)
(* extract_function_pointers: the list built from the rows of the query.   *)
(* A row is <<name, type, decl_loc, caller, file, start row, start col,    *)
(* end row, end col, exported_func, exported_loc, sig>>.  The two dicts    *)
(* fptr_decls and fptr_calls get their keys together and in the same       *)
(* order; they are kept as one sequence of entries in insertion order.     *)
(***************************************************************************)

\* "fptr_calls[name][tuple(call_loc)].append(item)" on the calls of one name
AddCall(calls, call_loc, item) ==
    IF \E i \in 1..Len(calls) : calls[i].call_loc = call_loc
    THEN [i \in 1..Len(calls) |->
            IF calls[i].call_loc = call_loc
            THEN [calls[i] EXCEPT !.items = Append(@, item)]
            ELSE calls[i]]
    ELSE Append(calls, [call_loc |-> call_loc, items |-> <<item>>])

\* lines 132-133 for the row r
AddFptr(decls, r) ==
    IF \E i \in 1..Len(decls) : decls[i].name = r[1]
    THEN [i \in 1..Len(decls) |->
            IF decls[i].name = r[1]
            THEN [name |-> r[1], decl_loc |-> r[3],
                  calls |-> AddCall(decls[i].calls, SubSeq(r, 4, 9), <<r[10], r[11], r[12]>>)]
            ELSE decls[i]]
    ELSE Append(decls, [name |-> r[1], decl_loc |-> r[3],
                        calls |-> AddCall(<<>>, SubSeq(r, 4, 9), <<r[10], r[11], r[12]>>)])

\* lines 131-133: the first loop
RECURSIVE CollectFptrs(_, _)
CollectFptrs(rs, decls) ==
    IF rs = <<>> THEN decls ELSE CollectFptrs(Tail(rs), AddFptr(decls, Head(rs)))

\* lines 143-144: "loc = (file,) + tuple(map(int, loc_in_file))"
LocOf(call_loc) ==
    <<call_loc[2], ParseInt(call_loc[3]).val, ParseInt(call_loc[4]).val,
      ParseInt(call_loc[5]).val, ParseInt(call_loc[6]).val>>

\* line 150: the index appended with a tuple, for the set seen_locs
IndexOf(seen_locs) == Cardinality(seen_locs) - 1

\* lines 149-150: the tuples of the items of one call location, from i on
RECURSIVE ItemsLoop(_, _, _, _, _)
ItemsLoop(out, n, loc, items, seen_locs) ==
    IF items = <<>> THEN out
    ELSE ItemsLoop(Append(out, <<n, loc, IndexOf(seen_locs), Head(items)[1], Head(items)[3]>>),
                   n, loc, Tail(items), seen_locs)

\* lines 142-150: the call locations of one name; st carries res and seen_locs
RECURSIVE CallsLoop(_, _, _)
CallsLoop(st, n, calls) ==
    IF calls = <<>> THEN st
    ELSE CallsLoop([res |-> ItemsLoop(st.res, n, LocOf(Head(calls).call_loc),
                                      Head(calls).items,
                                      st.seen_locs \cup {LocOf(Head(calls).call_loc)}),
                    seen_locs |-> st.seen_locs \cup {LocOf(Head(calls).call_loc)}],
                   n, Tail(calls))

\* lines 139-150: the second loop
RECURSIVE NamesLoop(_, _)
NamesLoop(st, decls) ==
    IF decls = <<>> THEN st
    ELSE NamesLoop(CallsLoop(st, Head(decls).name, Head(decls).calls), Tail(decls))

\* lines 128-150: the list returned for the rows rs
extract_function_pointers(rs) ==
    NamesLoop([res |-> <<>>, seen_locs |-> {}], CollectFptrs(rs, <<>>)).res

(***************************************************************************)
(* analyzer.py: Analyzer.parse_constraints.                                *)
(***************************************************************************)

\* str.find(ch) for a one-character ch: lowest 0-based index, or -1
Find(s, ch) ==
    LET hits == {i \in 0..(Len(s) - 1) : CharAt(s, i) = ch}
    IN  IF hits = {} THEN -1
        ELSE CHOOSE i \in hits : \A j \in hits : i <= j

\* "sub in s"
Contains(s, sub) ==
    \E i \in 1..(Len(s) - Len(sub) + 1) : SubSeq(s, i, i + Len(sub) - 1) = sub

\* lines 42-43: "max_pos, min_pos = size_slice.split(':')" and the two
\* int(): ok is FALSE where Python raises ValueError
SplitRange(size_slice) ==
    IF Cardinality({i \in 0..(Len(size_slice) - 1) : CharAt(size_slice, i) = ":"}) # 1
    THEN [ok |-> FALSE, max_pos |-> 0, min_pos |-> 0]
    ELSE [ok      |-> ParseInt(Slice(size_slice, 0, Find(size_slice, ":"))).ok
                      /\ ParseInt(Slice(size_slice, Find(size_slice, ":") + 1,
                                        Len(size_slice))).ok,
          max_pos |-> ParseInt(Slice(size_slice, 0, Find(size_slice, ":"))).val,
          min_pos |-> ParseInt(Slice(size_slice, Find(size_slice, ":") + 1,
                                     Len(size_slice))).val]

\* lines 47-52: the section a constraint names, "" where SectionException
\* is raised
SectionOf(c) ==
    IF Contains(c, ".bss") THEN ".bss"
    ELSE IF Contains(c, ".data") THEN ".data"
    ELSE ""

\* lines 38-52 for the constraint c
ParseConstraint(c) ==
    [range |-> SplitRange(Slice(c, Find(c, "[") + 1, Find(c, "]"))),
     sect  |-> SectionOf(c)]

\* the local variable section before its first assignment
Unbound == "<unbound>"

\* self.proj.loader.main_object.sections_map of the binary under analysis
SectionsMap ==
    [s \in {".bss", ".data"} |->
        IF s = ".bss" THEN [vaddr |-> 16400, memsize |-> 64]
        ELSE [vaddr |-> 16384, memsize |-> 16]]

\* Variable(name=..., size=..., address=...)
Variable(n, sz, addr) == [name |-> n, type |-> "None", size |-> sz, address |-> addr]

\* lines 45, 56-57: the Variable of a constraint with the bits max_pos to
\* min_pos, placed in section sect
VariableOf(sect, range) ==
    Variable(sect, FloorDiv(range.max_pos - range.min_pos + 1, 8),
             SectionsMap[sect].vaddr + SectionsMap[sect].memsize
                - FloorDiv(range.max_pos + 1, 8))

(***************************************************************************)
(* parse_struct_ptr(name, structs) as a process per call.                  *)
(***************************************************************************)

\* what is remembered of the field a call processed last: the node and the
\* index of the field, the exception, and cur.fields, the queue, the parent
\* map and the number of Pointers as they were before
NoLast == [node |-> 0, idx |-> 0, err |-> "", fields |-> EmptyDict, q |-> <<>>,
           parent |-> EmptyDict, heaplen |-> 0]

\* before extract_structs has run and before any call
Init ==
    /\ structs = EmptyDict
    /\ built = FALSE
    /\ name = [c \in CallIds |-> ""]
    /\ heap = <<>>
    /\ pc = [c \in CallIds |-> "idle"]
    /\ q = [c \in CallIds |-> <<>>]
    /\ parent = [c \in CallIds |-> EmptyDict]
    /\ cur = [c \in CallIds |-> 0]
    /\ fidx = [c \in CallIds |-> 0]
    /\ root = [c \in CallIds |-> None]
    /\ last = [c \in CallIds |-> NoLast]
    /\ cache_fname = PyNone
    /\ cache = NoFile
    /\ res = <<>>
    /\ ri = 0
    /\ epc = "idle"
    /\ ret = PyNone
    /\ constraints = <<>>
    /\ ci = 0
    /\ section = Unbound
    /\ parsed_constraints = <<>>
    /\ printed = <<>>
    /\ apc = "idle"
    /\ fptr_rows = <<>>
    /\ fptrs = <<>>
    /\ fpc = "idle"

\* the catalogue is handed over once, before the calls that read it
Load(cat) ==
    /\ built' = TRUE
    /\ structs' = cat
    /\ UNCHANGED <<name, heap, pc, q, parent, cur, fidx, root, last>>
    /\ UNCHANGED otherVars

\* extract_structs on the rows of a catalogue of structure pointers
ExtractPtrs == ~built /\ \E cat \in PtrCatalogues(MaxRows) : Load(cat)

\* extract_structs on the rows of a catalogue of unions
ExtractUnion == ~built /\ \E cat \in UnionCatalogues(MaxRows) : Load(cat)

\* a catalogue of assorted field types
ExtractZoo == ~built /\ \E cat \in ZooCatalogues(MaxZooFields) : Load(cat)

\* lines 17-23: the call parse_struct_ptr(n, structs), the lookup of the
\* root and the set-up of the queue
Enter(c, n) ==
    /\ built
    /\ pc[c] = "idle"
    /\ Len(heap) < MaxHeap
    /\ name' = [name EXCEPT ![c] = n]
    /\ IF n \notin DOMAIN structs
       THEN /\ pc' = [pc EXCEPT ![c] = "done"]
            /\ UNCHANGED <<heap, q, root>>
       ELSE /\ heap' = Append(heap, Pointer(n, structs[n].size))
            /\ root' = [root EXCEPT ![c] = Len(heap) + 1]
            /\ q' = [q EXCEPT ![c] = <<Len(heap) + 1>>]
            /\ pc' = [pc EXCEPT ![c] = "loop"]
    /\ parent' = [parent EXCEPT ![c] = EmptyDict]
    /\ UNCHANGED <<structs, built, cur, fidx, last>>
    /\ UNCHANGED otherVars

\* lines 25-26: "while q: cur = q.popleft()"
PopLeft(c) ==
    /\ pc[c] = "loop"
    /\ q[c] # <<>>
    /\ cur' = [cur EXCEPT ![c] = Head(q[c])]
    /\ q' = [q EXCEPT ![c] = Tail(q[c])]
    /\ fidx' = [fidx EXCEPT ![c] = 1]
    /\ pc' = [pc EXCEPT ![c] =
                 IF Len(structs[heap[Head(q[c])].name].fields) = 0 THEN "loop" ELSE "field"]
    /\ last' = [last EXCEPT ![c] = NoLast]
    /\ UNCHANGED <<structs, built, name, heap, parent, root>>
    /\ UNCHANGED otherVars

\* the field the call is at, and what the loop body does with it
CurField(c) == structs[heap[cur[c]].name].fields[fidx[c]]

\* ParentOf with one map for all calls
ParentOfShared(c) == parent[1]

\* line 23: the parent map of a call is its own
ParentOf(c) == parent[c]

Out(c) ==
    FieldBody(CurField(c), ParsedTypes[CurField(c).type], heap[cur[c]], q[c], ParentOf(c),
              structs, Len(heap) + 1)

\* lines 28-85: one iteration of the loop over the fields of cur; an
\* exception leaves the call at "raised"
Field(c) ==
    /\ pc[c] = "field"
    /\ \E out \in {Out(c)} :
         /\ Len(heap) + Len(out.fresh) <= MaxHeap
         /\ last' = [last EXCEPT ![c] =
                        [node |-> cur[c], idx |-> fidx[c], err |-> out.err,
                         fields |-> heap[cur[c]].fields, q |-> q[c],
                         parent |-> ParentOf(c), heaplen |-> Len(heap)]]
         /\ heap' = IF out.err # "" THEN heap
                    ELSE [heap EXCEPT ![cur[c]].fields = out.fields] \o out.fresh
         /\ q' = [q EXCEPT ![c] = out.q]
         /\ parent' = [parent EXCEPT ![c] = out.parent]
         /\ fidx' = IF out.err # "" THEN fidx ELSE [fidx EXCEPT ![c] = fidx[c] + 1]
         /\ pc' = [pc EXCEPT ![c] =
                      IF out.err # "" THEN "raised"
                      ELSE IF fidx[c] = Len(structs[heap[cur[c]].name].fields) THEN "loop"
                      ELSE "field"]
    /\ UNCHANGED <<structs, built, name, cur, root>>
    /\ UNCHANGED otherVars

\* line 87: "return root" once the queue is empty
Return(c) ==
    /\ pc[c] = "loop"
    /\ q[c] = <<>>
    /\ pc' = [pc EXCEPT ![c] = "done"]
    /\ UNCHANGED <<structs, built, name, heap, q, parent, cur, fidx, root, last>>
    /\ UNCHANGED otherVars

\* the names the calls are made with; "Z" is in no catalogue
RootNames == Names \cup {"Z"}

\* the steps of a call once it is entered
Run(c) == PopLeft(c) \/ Field(c) \/ Return(c)

\* one call on a catalogue of structure pointers
Next ==
    \/ ExtractPtrs
    \/ \E n \in RootNames : Enter(1, n)
    \/ PopLeft(1)
    \/ Field(1)
    \/ Return(1)

Spec == Init /\ [][Next]_vars

\* the call runs on: nothing suspends or cancels parse_struct_ptr
FairSpec == Spec /\ WF_vars(Run(1))

\* one call on a catalogue of assorted field types
NextZoo ==
    \/ ExtractZoo
    \/ Enter(1, "A")
    \/ PopLeft(1)
    \/ Field(1)
    \/ Return(1)

SpecZoo == Init /\ [][NextZoo]_vars

\* a second call is made with the name of the first
SameName(c, n) == \A d \in CallIds \ {c} : pc[d] # "idle" => name[d] = n

\* two calls with the same arguments, one after the other or interleaved
NextTwo ==
    \/ ~built /\ \E cat \in PtrCatalogues(MaxRows - 1) : Load(cat)
    \/ \E c \in CallIds, n \in RootNames : SameName(c, n) /\ Enter(c, n)
    \/ \E c \in CallIds : PopLeft(c)
    \/ \E c \in CallIds : Field(c)
    \/ \E c \in CallIds : Return(c)

SpecTwo == Init /\ [][NextTwo]_vars

\* one call on a catalogue of either kind
NextAny ==
    \/ ExtractPtrs
    \/ ExtractZoo
    \/ \E n \in RootNames : Enter(1, n)
    \/ PopLeft(1)
    \/ Field(1)
    \/ Return(1)

SpecAny == Init /\ [][NextAny]_vars

\* one call on a catalogue of unions
NextUnion ==
    \/ ExtractUnion
    \/ \E n \in RootNames : Enter(1, n)
    \/ PopLeft(1)
    \/ Field(1)
    \/ Return(1)

SpecUnion == Init /\ [][NextUnion]_vars

(***************************************************************************)
(* extract_structs(codeql_db_path, cache_fname) as a process.              *)
(***************************************************************************)

\* longest result of the structure query
MaxBuildRows == 4

\* the rows the query may return: fields f and g of the structures A and B
\* and of the unnamed structure
BuildRows ==
    {<<s, IF s = "B" THEN 16 ELSE 8, fn, "int", IF fn = "f" THEN 0 ELSE 4, 4>> :
        s \in {"A", "B", "struct <unnamed>"}, fn \in {"f", "g"}}

\* a catalogue an earlier run may have left in the cache; no result of the
\* query above builds it
StaleCatalogue == extract_structs(<<<<"C", 4, "h", "int", 0, 4>>>>)

\* the contents of the cache file before the call: no file, an empty
\* file, a pickle cut short, bytes that are no pickle, and whole pickles
CacheFiles ==
    {NoFile, File(<<>>), File(<<Opcode("JUNK", PyNone)>>)}
    \cup {File(SubSeq(PickleDump(PyObj(StaleCatalogue)), 1, k)) : k \in 1..3}
    \cup {File(PickleDump(PyNone)), File(PickleDump(PyObj(EmptyDict)))}

\* lines 90-91: the call, with or without a cache file name
CallExtract ==
    /\ epc = "idle"
    /\ \E fn \in {PyNone, PyObj("structs.cache")} :
         /\ cache_fname' = fn
         /\ \E f \in (IF fn.py = "None" THEN {NoFile} ELSE CacheFiles) : cache' = f
         /\ epc' = IF fn.py = "None" THEN "query" ELSE "restore"
    /\ UNCHANGED <<structs, res, ri, ret, parseVars, analyzerVars, fptrVars>>

\* lines 92-95: the cache is read, and what it holds is returned
Restore ==
    /\ epc = "restore"
    /\ \E out \in {restore_object(cache)} :
         IF out.err # ""
         THEN epc' = "raised" /\ ret' = PyObj(out.err)
         ELSE IF out.val.py # "None"
              THEN epc' = "done" /\ ret' = out.val
              ELSE epc' = "query" /\ ret' = ret
    /\ UNCHANGED <<structs, cache_fname, cache, res, ri, parseVars, analyzerVars, fptrVars>>

\* lines 98-99: the query is run
Query ==
    /\ epc = "query"
    /\ \E rs \in SeqsUpTo(BuildRows, MaxBuildRows) \cup {<<>>} : res' = rs
    /\ structs' = EmptyDict
    /\ ri' = 0
    /\ epc' = "loop"
    /\ UNCHANGED <<cache_fname, cache, ret, parseVars, analyzerVars, fptrVars>>

\* lines 101-108: one row of the result
Row ==
    /\ epc = "loop"
    /\ ri < Len(res)
    /\ structs' = AddRow(structs, res[ri + 1])
    /\ ri' = ri + 1
    /\ UNCHANGED <<cache_fname, cache, res, epc, ret, parseVars, analyzerVars, fptrVars>>

\* lines 110-115: the catalogue is saved and returned
Finish ==
    /\ epc = "loop"
    /\ ri = Len(res)
    /\ cache' = IF cache_fname.py # "None" THEN save_object(structs) ELSE cache
    /\ ret' = PyObj(structs)
    /\ epc' = "done"
    /\ UNCHANGED <<structs, cache_fname, res, ri, parseVars, analyzerVars, fptrVars>>

NextBuild ==
    \/ CallExtract
    \/ Restore
    \/ Query
    \/ Row
    \/ Finish

SpecBuild == Init /\ [][NextBuild]_vars

(***************************************************************************)
(* extract_function_pointers(codeql_db_path) as a process, called without  *)
(* a cache file name.                                                      *)
(***************************************************************************)

\* longest result of the function pointer query
MaxFptrRows == 3

\* the rows the query may return: calls through the pointers fp and gp, in
\* the functions c1 and c2, at two places of one file, all reached from the
\* exported function main
FptrRows ==
    {<<n, "void (*)(void)", "a.c:1", caller, "a.c", row, "1", row, "9", "main", "a.c:2",
       "void">> :
        n \in {"fp", "gp"}, caller \in {"c1", "c2"}, row \in {"3", "4"}}

\* lines 125-126: the query is run
FptrQuery ==
    /\ fpc = "idle"
    /\ \E rs \in SeqsUpTo(FptrRows, MaxFptrRows) : fptr_rows' = rs
    /\ fpc' = "rows"
    /\ UNCHANGED <<fptrs, structs, parseVars, extractVars, analyzerVars>>

\* lines 128-155: the list is built and returned
FptrBuild ==
    /\ fpc = "rows"
    /\ fptrs' = extract_function_pointers(fptr_rows)
    /\ fpc' = "done"
    /\ UNCHANGED <<fptr_rows, structs, parseVars, extractVars, analyzerVars>>

NextFptrs ==
    \/ FptrQuery
    \/ FptrBuild

SpecFptrs == Init /\ [][NextFptrs]_vars

(***************************************************************************)
(* Analyzer.parse_constraints(constraints) as a process.                   *)
(***************************************************************************)

\* longest batch of constraints
MaxConstraints == 3

\* constraints as find_globals and the solver spell them, two of them
\* without the name of a section
ConstraintTexts ==
    {"<Bool .bss_0_64[31:0] == 0>", "<Bool .bss_0_64[47:32] != 0>",
     "<Bool .data_1_16[15:8] == 1>", "<Bool mem_7_64[15:8] == 0>",
     "<Bool reg_9_64[63:0] != 0>"}

ParsedConstraints == [c \in ConstraintTexts |-> ParseConstraint(c)]

\* lines 34-36: the call
CallParse ==
    /\ apc = "idle"
    /\ \E cs \in SeqsUpTo(ConstraintTexts, MaxConstraints) : constraints' = cs
    /\ ci' = 0
    /\ parsed_constraints' = <<>>
    /\ apc' = "loop"
    /\ UNCHANGED <<section, printed, structs, parseVars, extractVars, fptrVars>>

\* lines 37-57: the body of the loop for the next constraint.  The except
\* clause prints the SectionException and the body goes on with section as
\* it was left; reading it before its first assignment raises
\* UnboundLocalError
Constraint ==
    /\ apc = "loop"
    /\ ci < Len(constraints)
    /\ \E p \in {ParsedConstraints[constraints[ci + 1]]} :
       \E sec \in {IF p.sect # "" THEN p.sect ELSE section} :
         IF ~p.range.ok
         THEN /\ apc' = "ValueError"
              /\ UNCHANGED <<ci, section, parsed_constraints, printed>>
         ELSE /\ section' = sec
              /\ printed' = IF p.sect = ""
                            THEN Append(printed, "Could not find .bss or .data in constraint.")
                            ELSE printed
              /\ IF sec = Unbound
                 THEN /\ apc' = "UnboundLocalError"
                      /\ UNCHANGED <<ci, parsed_constraints>>
                 ELSE /\ parsed_constraints' =
                            Append(parsed_constraints, VariableOf(sec, p.range))
                      /\ ci' = ci + 1
                      /\ apc' = apc
    /\ UNCHANGED <<constraints, structs, parseVars, extractVars, fptrVars>>

\* line 58: "return parsed_constraints"
ReturnParsed ==
    /\ apc = "loop"
    /\ ci = Len(constraints)
    /\ apc' = "done"
    /\ UNCHANGED <<constraints, ci, section, parsed_constraints, printed, structs,
                   parseVars, extractVars, fptrVars>>

NextParse ==
    \/ CallParse
    \/ Constraint
    \/ ReturnParsed

SpecParse == Init /\ [][NextParse]_vars

(***************************************************************************)
(* The catalogue as a graph, and the tree a call has built.                *)
(***************************************************************************)

\* the structure names the single-pointer fields of s point to
Targets(cat, s) ==
    {ParsedTypes[cat[s].fields[i].type].ftype :
        i \in {j \in 1..Len(cat[s].fields) :
                 LET f == cat[s].fields[j]
                 IN  /\ f.type \notin UnnamedTypes
                     /\ ParsedTypes[f.type].err = ""
                     /\ ParsedTypes[f.type].follow}}
    \cap DOMAIN cat

\* the names reachable from the names in S by one or more pointer hops
RECURSIVE ReachFrom(_, _, _)
ReachFrom(cat, S, acc) ==
    LET nxt == UNION {Targets(cat, s) : s \in S}
    IN  IF nxt \subseteq acc THEN acc ELSE ReachFrom(cat, nxt \ acc, acc \cup nxt)

OnCycle(cat, s) == s \in DOMAIN cat /\ s \in ReachFrom(cat, {s}, {})

\* the slots of node id that hold a child
NestedKeys(id) == {k \in DOMAIN heap[id].fields : heap[id].fields[k].kind = "Nested"}

\* the nodes of the tree below node id, id included
RECURSIVE TreeNodes(_)
TreeNodes(id) == {id} \cup UNION {TreeNodes(heap[id].fields[k].v) : k \in NestedKeys(id)}

\* the trees below a and b have the same names, sizes and slots throughout
RECURSIVE SameTree(_, _)
SameTree(a, b) ==
    /\ heap[a].name = heap[b].name
    /\ heap[a].size = heap[b].size
    /\ DOMAIN heap[a].fields = DOMAIN heap[b].fields
    /\ \A k \in DOMAIN heap[a].fields :
          /\ heap[a].fields[k].kind = heap[b].fields[k].kind
          /\ IF heap[a].fields[k].kind = "Scalar"
             THEN heap[a].fields[k].v = heap[b].fields[k].v
             ELSE SameTree(heap[a].fields[k].v, heap[b].fields[k].v)

\* call c has just processed a field: the field, its node, and the slots
\* of the node now and before
Processed(c) == last[c].node # 0
LastNode(c) == heap[last[c].node]
LastField(c) == structs[LastNode(c).name].fields[last[c].idx]

\* the offsets of n elements of size e from the offset of field f
ElemOffsets(f, n, e) == {f.offset + i * e : i \in 0..(n - 1)}

\* the step left the queue, the parent map and the set of Pointers alone
NothingExpanded(c) ==
    /\ q[c] = last[c].q
    /\ parent[c] = last[c].parent
    /\ Len(heap) = last[c].heaplen

\* the step wrote Scalar(e) at each of the offsets offs and nothing else
OnlyScalars(c, offs, e) ==
    /\ DOMAIN LastNode(c).fields = (DOMAIN last[c].fields) \cup offs
    /\ \A k \in offs : LastNode(c).fields[k] = Scalar(e)
    /\ \A k \in (DOMAIN last[c].fields) \ offs : LastNode(c).fields[k] = last[c].fields[k]

(***************************************************************************)
(* C1  Termination: on every catalogue of structure pointers, cyclic or    *)
(* not, with arrays of pointers or not, a call of parse_struct_ptr that    *)
(* was entered reaches its return with the queue empty, after allocating   *)
(* finitely many Pointers.                                                 *)
(***************************************************************************)
C1_Termination == (pc[1] # "idle") ~> (pc[1] = "done" /\ q[1] = <<>>)

\* a call returned a tree with children for a root that lies on a cycle
C1_Witness ==
    /\ pc[1] = "done"
    /\ root[1] # None
    /\ OnCycle(structs, name[1])
    /\ Len(heap) >= 3


(***************************************************************************)
(* C2  Mutual-cycle collapse: with structures x (one field "y *") and y    *)
(* (one field "x *"), the call for x returns a root of type x whose field  *)
(* is a Nested child of type y, and in that child the "x *" field is a     *)
(* Scalar slot.                                                            *)
(***************************************************************************)
MutualPair(x, y) ==
    /\ x # y
    /\ {x, y} \subseteq DOMAIN structs
    /\ Len(structs[x].fields) = 1 /\ structs[x].fields[1].type = y \o " *"
    /\ Len(structs[y].fields) = 1 /\ structs[y].fields[1].type = x \o " *"

C2_MutualCycleCollapse ==
    \A x \in Names, y \in Names :
        (pc[1] = "done" /\ name[1] = x /\ MutualPair(x, y)) =>
            /\ heap[root[1]].name = x
            /\ 0 \in DOMAIN heap[root[1]].fields
            /\ heap[root[1]].fields[0].kind = "Nested"
            /\ heap[heap[root[1]].fields[0].v].name = y
            /\ 0 \in DOMAIN heap[heap[root[1]].fields[0].v].fields
            /\ heap[heap[root[1]].fields[0].v].fields[0].kind = "Scalar"

(***************************************************************************)
(* C3  Self-reference collapse: a field of type "S *", or an array of      *)
(* such pointers, processed in a node of type S, root or not, gives        *)
(* Scalar(element size) at the offset of each element and creates no       *)
(* node; the root keeps the name the call was made with.                   *)
(***************************************************************************)
\* the number of elements of a field of type "S *" or "S *[2]", else 0
SelfPtrLen(f, S) ==
    IF f.type = S \o " *" THEN 1 ELSE IF f.type = S \o " *[2]" THEN 2 ELSE 0

C3_SelfReferenceCollapse ==
    \A c \in CallIds :
        /\ root[c] # None => heap[root[c]].name = name[c]
        /\ (Processed(c) /\ SelfPtrLen(LastField(c), LastNode(c).name) > 0) =>
              /\ last[c].err = ""
              /\ OnlyScalars(c, ElemOffsets(LastField(c),
                                            SelfPtrLen(LastField(c), LastNode(c).name),
                                            LastField(c).size
                                                \div SelfPtrLen(LastField(c), LastNode(c).name)),
                             LastField(c).size \div SelfPtrLen(LastField(c), LastNode(c).name))
              /\ Len(heap) = last[c].heaplen
              /\ q[c] = last[c].q

\* an array of pointers to its own type was processed in a node below the root
C3_Witness ==
    /\ Processed(1)
    /\ last[1].node # root[1]
    /\ SelfPtrLen(LastField(1), LastNode(1).name) = 2

(***************************************************************************)
(* C4  Absent target: a field whose base type, after the array suffix and  *)
(* one "*" are stripped, is no key of the catalogue gives Scalar(element   *)
(* size) at the offset of each element.                                    *)
(***************************************************************************)
C4_AbsentTargetScalar ==
    \A c \in CallIds :
        (/\ Processed(c)
         /\ last[c].err = ""
         /\ ParsedTypes[LastField(c).type].ftype \notin DOMAIN structs) =>
            \A k \in ElemOffsets(LastField(c), ParsedTypes[LastField(c).type].array_sz,
                                 LastField(c).size
                                     \div ParsedTypes[LastField(c).type].array_sz) :
                /\ k \in DOMAIN LastNode(c).fields
                /\ LastNode(c).fields[k] =
                       Scalar(LastField(c).size \div ParsedTypes[LastField(c).type].array_sz)

(***************************************************************************)
(* C5  No call ends in an exception, whatever the spelling of the array    *)
(* suffix of a field's type.                                               *)
(***************************************************************************)
C5_NeverRaises == \A c \in CallIds : pc[c] # "raised"

(***************************************************************************)
(* C6  Array expansion: a field "T [n]" of a primitive T with total size s *)
(* gives exactly n Scalar slots of size s div n, at offset + i*(s div n),  *)
(* and nothing else.                                                       *)
(***************************************************************************)
\* the length of the arrays of primitives among the field types, else 0
PrimArrayLen(t) ==
    IF t = "int [4]" THEN 4 ELSE IF t = "char [3]" THEN 3 ELSE IF t = "int *[2]" THEN 2 ELSE 0

C6_ArrayExpansion ==
    \A c \in CallIds :
        (Processed(c) /\ PrimArrayLen(LastField(c).type) > 0) =>
            /\ last[c].err = ""
            /\ OnlyScalars(c, ElemOffsets(LastField(c), PrimArrayLen(LastField(c).type),
                                          LastField(c).size \div PrimArrayLen(LastField(c).type)),
                           LastField(c).size \div PrimArrayLen(LastField(c).type))
            /\ Cardinality(ElemOffsets(LastField(c), PrimArrayLen(LastField(c).type),
                                       LastField(c).size \div PrimArrayLen(LastField(c).type)))
                  = PrimArrayLen(LastField(c).type)
            /\ NothingExpanded(c)

\* "char [3]" of 8 bytes was processed as the second field of its node
C6_Witness ==
    /\ Processed(1)
    /\ last[1].idx = 2
    /\ LastField(1).type = "char [3]"
    /\ LastNode(1).fields[LastField(1).offset + 4] = Scalar(2)

(***************************************************************************)
(* C7  Double-pointer opacity: a field whose type ends in "**" gives one   *)
(* Scalar slot of the field's size at its offset; no node is created or    *)
(* enqueued and the parent map stays as it was.                            *)
(***************************************************************************)
C7_DoublePointerOpaque ==
    \A c \in CallIds :
        (Processed(c) /\ EndsWith(LastField(c).type, "**")) =>
            /\ last[c].err = ""
            /\ OnlyScalars(c, {LastField(c).offset}, LastField(c).size)
            /\ NothingExpanded(c)

\* a double pointer to a structure of the catalogue was processed
C7_Witness ==
    /\ Processed(1)
    /\ LastField(1).type = "A **"
    /\ "A" \in DOMAIN structs

(***************************************************************************)
(* C8  Unnamed aggregates: a field of type "struct <unnamed>" or "union    *)
(* <unnamed>" gives one Scalar slot of the field's size at its offset and  *)
(* is never expanded, also when the catalogue has entries of those names.  *)
(***************************************************************************)
C8_UnnamedOpaque ==
    \A c \in CallIds :
        (Processed(c) /\ LastField(c).type \in {"struct <unnamed>", "union <unnamed>"}) =>
            /\ last[c].err = ""
            /\ OnlyScalars(c, {LastField(c).offset}, LastField(c).size)
            /\ NothingExpanded(c)

\* an unnamed struct was processed under a catalogue that has entries named
\* "<unnamed>" and "struct <unnamed>"
C8_Witness ==
    /\ Processed(1)
    /\ LastField(1).type = "struct <unnamed>"
    /\ {"<unnamed>", "struct <unnamed>"} \subseteq DOMAIN structs

(***************************************************************************)
(* C9  Root contract: a call returns None exactly if its name is no key    *)
(* of the catalogue; otherwise the root has that name and the size of its  *)
(* structure, and so has every node of the tree the size of its own.       *)
(***************************************************************************)
C9_RootContract ==
    \A c \in CallIds :
        pc[c] = "done" =>
            /\ (root[c] = None) <=> (name[c] \notin DOMAIN structs)
            /\ root[c] # None =>
                  /\ heap[root[c]].name = name[c]
                  /\ heap[root[c]].size = structs[name[c]].size
                  /\ \A id \in TreeNodes(root[c]) :
                        /\ heap[id].name \in DOMAIN structs
                        /\ heap[id].size = structs[heap[id].name].size

\* a call returned a tree with nodes of three sizes
C9_Witness ==
    /\ pc[1] = "done"
    /\ root[1] # None
    /\ Cardinality({heap[id].size : id \in TreeNodes(root[1])}) = 3

(***************************************************************************)
(* C10  Idempotence: two calls with the same catalogue and name, one after *)
(* the other or interleaved, return structurally identical trees that      *)
(* share no node.                                                          *)
(***************************************************************************)
C10_Idempotent ==
    (pc[1] = "done" /\ pc[2] = "done") =>
        /\ (root[1] = None) <=> (root[2] = None)
        /\ root[1] # None =>
              /\ SameTree(root[1], root[2])
              /\ TreeNodes(root[1]) \cap TreeNodes(root[2]) = {}

\* both calls returned trees with children, and the second call was entered
\* while the first was at work
C10_Witness ==
    /\ pc[1] = "done" /\ pc[2] = "done"
    /\ root[1] # None /\ root[2] # None
    /\ root[1] < root[2]
    /\ \E id \in TreeNodes(root[1]) : id > root[2]
    /\ OnCycle(structs, name[1])

(***************************************************************************)
(* Claims about extract_structs and the cache.                             *)
(***************************************************************************)

\* the positions of the rows of structure k in rows
RowsAt(rows, k) == {i \in 1..Len(rows) : rows[i][1] = k}

\* the position of the j-th row of structure k
NthRowAt(rows, k, j) ==
    CHOOSE i \in RowsAt(rows, k) : Cardinality({h \in RowsAt(rows, k) : h < i}) = j - 1

\* cat holds exactly the rows: a key per structure name but the sentinel,
\* and under it the fields of its rows, each once, in the order of the rows
HoldsRows(cat, rows) ==
    /\ DOMAIN cat = {rows[i][1] : i \in 1..Len(rows)} \ {"struct <unnamed>"}
    /\ \A k \in DOMAIN cat :
         /\ Len(cat[k].fields) = Cardinality(RowsAt(rows, k))
         /\ \A j \in 1..Len(cat[k].fields) :
              LET r == rows[NthRowAt(rows, k, j)]
              IN  cat[k].fields[j] = [name |-> r[3], type |-> r[4], offset |-> r[5],
                                      size |-> r[6]]

\* C11: when extract_structs builds the catalogue (no cached value was
\* returned), the catalogue it returns has exactly the structure names of the
\* rows other than "struct <unnamed>" as keys, and under each key the fields of
\* the rows of that structure, none dropped or doubled, in the order of the
\* rows, also when the rows of the structures are interleaved.
C11_CatalogueBuild ==
    [][(epc = "loop" /\ epc' = "done") => (ret'.py = "obj" /\ HoldsRows(ret'.v, res))]_vars

\* C11 witness: a catalogue was built and returned from four rows, the rows
\* of A around a row of the unnamed structure and a row of B, one of them
\* twice
C11_Witness ==
    /\ epc = "done"
    /\ Len(res) = 4
    /\ ri = 4
    /\ <<res[1][1], res[2][1], res[3][1], res[4][1]>> = <<"A", "struct <unnamed>", "B", "A">>
    /\ res[1] = res[4]
    /\ ret = PyObj(structs)
    /\ DOMAIN structs = {"A", "B"}

\* the file holds a whole pickle
Deserializable(f) == f.exists /\ Len(f.bytes) = 3 /\ f.bytes = PickleDump(f.bytes[2].arg)

\* C12: reading the cache never raises: a missing, truncated or corrupt
\* blob reads as None and the catalogue is rebuilt from the rows; a call
\* that returned with a cache file name returned what a whole pickle in
\* that file holds.
C12_CacheReadDegrades ==
    /\ epc # "raised"
    /\ (epc = "done" /\ cache_fname.py # "None") =>
           (Deserializable(cache) /\ ret = cache.bytes[2].arg)

(***************************************************************************)
(* Claims about the shape of the tree parse_struct_ptr returns.            *)
(***************************************************************************)

\* no node of the tree below id has the name of one of its ancestors in
\* the tree, nor a name of anc
RECURSIVE NoRepeatBelow(_, _)
NoRepeatBelow(id, anc) ==
    /\ heap[id].name \notin anc
    /\ \A k \in NestedKeys(id) :
          NoRepeatBelow(heap[id].fields[k].v, anc \cup {heap[id].name})

\* C13: in the tree a call returns no node has a proper ancestor of the
\* same type name: a pointer to the type of the node or of one of its
\* ancestors is a Scalar slot, whatever the length of the cycle.
C13_NoTypeRepeats ==
    (pc[1] = "done" /\ root[1] # None) => NoRepeatBelow(root[1], {})

\* following the ancestor map pm from the name par reaches the name C or a
\* name already met on the way
RECURSIVE ChainHits(_, _, _, _)
ChainHits(par, met, C, pm) ==
    IF par \notin DOMAIN pm THEN FALSE
    ELSE IF pm[par] = C \/ pm[par] \in met THEN TRUE
    ELSE ChainHits(pm[par], met \cup {pm[par]}, C, pm)

WellLaidOut(cat) ==
    \A s \in DOMAIN cat :
        /\ cat[s].size >= 1
        /\ \A i \in 1..Len(cat[s].fields) :
              /\ cat[s].fields[i].size >= 1
              /\ cat[s].fields[i].offset >= 0
              /\ cat[s].fields[i].offset + cat[s].fields[i].size <= cat[s].size

\* C15: on a catalogue all of whose fields lie inside their structures,
\* every key of the fields of every Pointer a call has made, so of every
\* node of the tree it returns, is at least 0 and less than the size of that
\* Pointer; this includes the offsets of the elements of arrays and of
\* arrays of structure pointers.
C15_SlotsInsideNode ==
    WellLaidOut(structs) =>
        \A id \in 1..Len(heap) : \A k \in DOMAIN heap[id].fields :
            k >= 0 /\ k < heap[id].size

\* C15 witness: a call returned a node whose last field is an array of four
\* elements, and the last element ends where the node ends
C15_Witness ==
    /\ pc[1] = "done"
    /\ root[1] # None
    /\ WellLaidOut(structs)
    /\ structs[name[1]].fields[Len(structs[name[1]].fields)].type = "int [4]"
    /\ heap[root[1]].size - 4 \in DOMAIN heap[root[1]].fields

\* the slots that hold the Pointer id: pairs of a node and a key
OwnersOf(id) ==
    {pk \in (1..Len(heap)) \X (UNION {DOMAIN heap[p].fields : p \in 1..Len(heap)}) :
        /\ pk[2] \in DOMAIN heap[pk[1]].fields
        /\ heap[pk[1]].fields[pk[2]] = Nested(id)}

\* C16: when a call returns, every Pointer it created other than the root
\* is the value of exactly one slot of exactly one node, and that node is in
\* the tree below the root; so every node that was taken from the queue and
\* filled is in the returned tree, also when fields or array elements have
\* the same offset.
C16_TreeOwnership ==
    (pc[1] = "done" /\ root[1] # None) =>
        \A id \in (1..Len(heap)) \ {root[1]} :
            /\ Cardinality(OwnersOf(id)) = 1
            /\ \A pk \in OwnersOf(id) : pk[1] \in TreeNodes(root[1])

(***************************************************************************)
(* Claims about Analyzer.parse_constraints.                                *)
(***************************************************************************)

\* the Variables of the constraints of cs that name a section, each with
\* its own section, in the order of cs
RECURSIVE Classified(_)
Classified(cs) ==
    IF cs = <<>> THEN <<>>
    ELSE IF ParsedConstraints[Head(cs)].sect = "" THEN Classified(Tail(cs))
    ELSE <<VariableOf(ParsedConstraints[Head(cs)].sect, ParsedConstraints[Head(cs)].range)>>
            \o Classified(Tail(cs))

\* the number of constraints of cs that name no section
RECURSIVE Unclassified(_)
Unclassified(cs) ==
    IF cs = <<>> THEN 0
    ELSE (IF ParsedConstraints[Head(cs)].sect = "" THEN 1 ELSE 0) + Unclassified(Tail(cs))

\* C17: a constraint that names neither .bss nor .data is reported and
\* skipped: the call does not end in an exception, and it returns the
\* Variables of the other constraints, each with its own section, and none
\* for the constraint without a section, wherever that constraint stands in
\* the batch; one message is printed per such constraint.
C17_AmbiguousSectionSkipped ==
    /\ apc \in {"idle", "loop", "done"}
    /\ apc = "done" =>
          /\ parsed_constraints = Classified(constraints)
          /\ Len(printed) = Unclassified(constraints)

\* call c has just processed a pointer field (single or array) to a
\* catalogued structure other than the one of its node
PtrToOther(c) ==
    /\ Processed(c)
    /\ last[c].err = ""
    /\ LastField(c).type \notin UnnamedTypes
    /\ ParsedTypes[LastField(c).type].follow
    /\ ParsedTypes[LastField(c).type].ftype \in DOMAIN structs
    /\ ParsedTypes[LastField(c).type].ftype # LastNode(c).name

\* the field call c has just processed was expanded: a child of the target
\* type at the offset of every element, and a new Pointer per element
Expanded(c) ==
    /\ Len(heap) = last[c].heaplen + ParsedTypes[LastField(c).type].array_sz
    /\ \A k \in ElemOffsets(LastField(c), ParsedTypes[LastField(c).type].array_sz,
                           LastField(c).size \div ParsedTypes[LastField(c).type].array_sz) :
          /\ k \in NestedKeys(last[c].node)
          /\ heap[LastNode(c).fields[k].v].name = ParsedTypes[LastField(c).type].ftype

Acyclic(cat) == \A s \in DOMAIN cat : ~OnCycle(cat, s)

\* C18: on a catalogue without a cycle of structure pointers, a pointer
\* field (single or array) to a catalogued structure is expanded: after
\* the field is processed its node holds a child of the target type at the
\* offset of every element, and as many Pointers were created as the field
\* has elements.  This holds for every choice of names, also when the name
\* of the node is a character of the name of the target.
C18_NoSuppressionWithoutCycle ==
    \A c \in CallIds :
        (/\ Processed(c)
         /\ last[c].err = ""
         /\ Acyclic(structs)
         /\ LastField(c).type \notin UnnamedTypes
         /\ ParsedTypes[LastField(c).type].follow
         /\ ParsedTypes[LastField(c).type].ftype \in DOMAIN structs)
        => /\ Len(heap) = last[c].heaplen + ParsedTypes[LastField(c).type].array_sz
           /\ \A k \in ElemOffsets(LastField(c), ParsedTypes[LastField(c).type].array_sz,
                                  LastField(c).size
                                     \div ParsedTypes[LastField(c).type].array_sz) :
                 /\ k \in NestedKeys(last[c].node)
                 /\ heap[LastNode(c).fields[k].v].name = ParsedTypes[LastField(c).type].ftype

(***************************************************************************)
(* Claims about extract_function_pointers.                                 *)
(***************************************************************************)

\* C19: in the list extract_function_pointers returns, the index of a
\* tuple is a function of its loc, and an injective one: two tuples have
\* the same index exactly if they have the same loc, also when a location
\* comes again under another caller or another pointer after other
\* locations.
C19_IndexOfLocation ==
    fpc = "done" =>
        \A i \in 1..Len(fptrs), j \in 1..Len(fptrs) :
            (fptrs[i][3] = fptrs[j][3]) <=> (fptrs[i][2] = fptrs[j][2])

====
